---------------------------- MODULE Spec2Model ----------------------------
(***************************************************************************)
(* Model of voxler/voxels.py: the Voxel / DirectVoxel / DirectCube /       *)
(* DirectSphere wrappers around the bodies and appearances of a CAD host   *)
(* document.  The Python objects are the records of `voxels`; the host     *)
(* document is `designType`, `bodies`, `nextBody` and `appearances`.       *)
(* `calls`, `last`, `lastSet`, `deleted` and `firstApp` observe the run:   *)
(* the host calls the last operation made, what the operation was and      *)
(* returned, the arguments each attribute was last given, the voxels       *)
(* delete() was called on, and the derived appearance each (appearance id, *)
(* color) pair resolved to the first time.                                 *)
(***************************************************************************)
EXTENDS Integers, Sequences, FiniteSets, TLC

VARIABLES designType, voxels, bodies, nextBody, appearances,
          calls, last, lastSet, deleted, firstApp, nops

vars == <<designType, voxels, bodies, nextBody, appearances,
          calls, last, lastSet, deleted, firstApp, nops>>

\* ------------------------------------------------------------ bounds
\* Number of voxel objects constructed in a run.
MaxVoxels == 2
\* Number of API calls in a run.
MaxOps == 4

\* ------------------------------------------------------ Python values
None == [kind |-> "None"]
PyTuple(items) == [kind |-> "tuple", items |-> items]
PyList(items) == [kind |-> "list", items |-> items]

\* tuple(x): a tuple of x's items, whatever sequence type x is.
tuple(x) == [kind |-> "tuple", items |-> x.items]

\* tuple(color) if color is not None else None
tuple_or_none(x) == IF x # None THEN tuple(x) ELSE None

\* No body: the value of _body after delete().
NoBody == 0

\* ------------------------------------------------------------- inputs
ParametricDesignType == "parametric"
DirectDesignType == "direct"
DesignTypes == {DirectDesignType, ParametricDesignType}

\* The host's components: an id and a display name.
Components == {[id |-> 1, name |-> "Root"], [id |-> 2, name |-> "Part"]}

Classes == {"DirectCube", "DirectSphere"}
DefaultAppearance == "Prism-256"
AppearanceIds == {DefaultAppearance, "Prism-001"}
Color1 == <<1, 11, 0, 255>>
Color2 == <<11, 1, 0, 255>>
ColorInputs == {None, PyTuple(Color1), PyTuple(Color2), PyList(Color1)}
CenterInputs == {PyTuple(<<0, 0, 0>>), PyTuple(<<1, 0, 0>>), PyList(<<1, 0, 0>>)}
SideLengths == {1, 2}
NameInputs == {"Cube", "Voxel"}

\* The default of the constructor's name parameter, by class.
DefaultName(class) == IF class = "DirectCube" THEN "Cube" ELSE "Sphere"

\* The constructor calls of the model: all defaults, and every optional
\* argument given (the sequences as lists).
CtorArgs(class) ==
  { [component |-> CHOOSE c \in Components : c.id = 1,
     center |-> PyTuple(<<0, 0, 0>>), side_length |-> 1,
     color |-> None, appearance |-> DefaultAppearance,
     name |-> DefaultName(class)],
    [component |-> CHOOSE c \in Components : c.id = 2,
     center |-> PyList(<<1, 0, 0>>), side_length |-> 2,
     color |-> PyList(Color1), appearance |-> "Prism-001",
     name |-> "Voxel"] }

\* ---------------------------------------------------------- the host
\* The host state the operations thread through: the live bodies, the next
\* body handle, the document's appearance table, the log of mutating host
\* calls and the record of first resolutions.
Host == [bodies |-> bodies, nextBody |-> nextBody, appearances |-> appearances,
         calls |-> <<>>, firstApp |-> firstApp, got |-> None, new |-> NoBody]

\* A host call of the log: the call and the body handle (a body call) or the
\* place in the appearance table (an appearance call) it acts on.
Call(name, on) == [call |-> name, on |-> on]

\* material_library.appearances.itemById(id): the library's base appearance.
LibraryAppearance(id) == [kind |-> "library", id |-> id]
\* An appearance of the document's table, by its place in the table.
DesignAppearance(i) == [kind |-> "design", index |-> i]

\* Fault: the channel letters r, g, b, o left out of the name.
colored_appearance_name_nosep(appearance, color) ==
  appearance \o "__custom_" \o ToString(color[1]) \o ToString(color[2])
             \o ToString(color[3]) \o ToString(color[4])
\* f"{appearance}__custom_r{r}g{g}b{b}o{o}"
colored_appearance_name(appearance, color) ==
  appearance \o "__custom_r" \o ToString(color[1]) \o "g" \o ToString(color[2])
             \o "b" \o ToString(color[3]) \o "o" \o ToString(color[4])

\* design.appearances.itemByName(name): the first entry of that name, 0 if none.
itemByName(table, name) ==
  IF \E i \in 1..Len(table) : table[i].name = name
  THEN CHOOSE i \in 1..Len(table) :
         table[i].name = name /\ \A j \in 1..(i-1) : table[j].name # name
  ELSE 0

\* The pair a resolution is recorded under.
Pair(appearance, color) == <<appearance, color.items>>
Pairs == {<<a, c>> : a \in AppearanceIds, c \in {Color1, Color2}}

\* Fault: the lookup by name skipped, a copy added on every request.
get_appearance_always_copy(h, appearance, color) ==
  LET name == colored_appearance_name(appearance, color.items)
      idx == Len(h.appearances) + 1
      obj == DesignAppearance(idx)
      p == Pair(appearance, color)
  IN IF color = None THEN [h EXCEPT !.got = LibraryAppearance(appearance)]
     ELSE [h EXCEPT !.appearances = Append(@, [name |-> name, base |-> appearance,
                                                 albedo |-> color.items]),
                    !.calls = @ \o <<Call("addByCopy", idx), Call("set_albedo", idx)>>,
                    !.firstApp = IF @[p] = None THEN [@ EXCEPT ![p] = obj] ELSE @,
                    !.got = obj]
\* Voxel._get_appearance with the voxel's _appearance and _color: the host
\* after the call and the appearance returned (in .got).
get_appearance(h, appearance, color) ==
  LET name == colored_appearance_name(appearance, color.items)
      found == itemByName(h.appearances, name)
      idx == IF found = 0 THEN Len(h.appearances) + 1 ELSE found
      obj == DesignAppearance(idx)
      p == Pair(appearance, color)
  IN IF color = None THEN [h EXCEPT !.got = LibraryAppearance(appearance)]
     ELSE [h EXCEPT !.appearances =
                      IF found = 0
                      THEN Append(@, [name |-> name, base |-> appearance,
                                      albedo |-> color.items])
                      ELSE @,
                    !.calls = IF found = 0
                              THEN @ \o <<Call("addByCopy", idx), Call("set_albedo", idx)>>
                              ELSE @,
                    !.firstApp = IF @[p] = None THEN [@ EXCEPT ![p] = obj] ELSE @,
                    !.got = obj]

\* side_length / 2 as a reduced fraction <<numerator, denominator>>.
Half(x) == IF x % 2 = 0 THEN <<x \div 2, 1>> ELSE <<x, 2>>

\* The temporary solid each class builds: createBox on an oriented bounding
\* box (DirectCube), createSphere (DirectSphere).
Geometry(v) ==
  IF v.class = "DirectCube"
  THEN [kind |-> "box", center |-> v.center.items, length |-> v.side_length,
        width |-> v.side_length, height |-> v.side_length]
  ELSE [kind |-> "sphere", center |-> v.center.items, radius |-> Half(v.side_length)]


\* What bRepBodies.add gives a new body before the module sets them.
HostBodyName == ""
HostBodyAppearance == [kind |-> "host default"]

\* Fault: the new body keeps the host's name.
create_body_no_name(h, v) ==
  LET b == h.nextBody
      h1 == [h EXCEPT !.bodies = (b :> [component |-> v.component.id,
                                         geometry |-> Geometry(v),
                                         name |-> HostBodyName,
                                         appearance |-> HostBodyAppearance]) @@ @,
                      !.nextBody = b + 1,
                      !.calls = Append(@, Call("add", b))]
      h2 == get_appearance(h1, v.appearance, v.color)
  IN [h2 EXCEPT !.bodies[b].appearance = h2.got,
                !.calls = @ \o <<Call("set_appearance", b)>>,
                !.new = b]
\* DirectCube._create_body / DirectSphere._create_body for voxel v: the host
\* after the call, the new body's handle in .new.
create_body(h, v) ==
  LET b == h.nextBody
      h1 == [h EXCEPT !.bodies = (b :> [component |-> v.component.id,
                                         geometry |-> Geometry(v),
                                         name |-> HostBodyName,
                                         appearance |-> HostBodyAppearance]) @@ @,
                      !.nextBody = b + 1,
                      !.calls = Append(@, Call("add", b))]
      h2 == get_appearance(h1, v.appearance, v.color)
  IN [h2 EXCEPT !.bodies[b].appearance = h2.got,
                !.bodies[b].name = v.name,
                !.calls = @ \o <<Call("set_appearance", b), Call("set_name", b)>>,
                !.new = b]

\* Fault: the reference cleared without deleteMe().
delete_keep_body(s) ==
  [h |-> s.h, v |-> [s.v EXCEPT !.body = NoBody]]
\* Voxel.delete on s = [h |-> host, v |-> voxel].
delete(s) ==
  [h |-> [s.h EXCEPT !.bodies = [b \in DOMAIN @ \ {s.v.body} |-> @[b]],
                     !.calls = Append(@, Call("deleteMe", s.v.body))],
   v |-> [s.v EXCEPT !.body = NoBody]]

\* Voxel.recreate_body
recreate_body(s) ==
  LET d == delete(s)
      c == create_body(d.h, d.v)
  IN [h |-> c, v |-> [d.v EXCEPT !.body = c.new]]

\* DirectVoxel.name setter
set_name(s, new_name) ==
  IF s.v.name # new_name
  THEN [h |-> [s.h EXCEPT !.bodies[s.v.body].name = new_name,
                          !.calls = Append(@, Call("set_name", s.v.body))],
        v |-> [s.v EXCEPT !.name = new_name]]
  ELSE s

\* The tail of the color and appearance setters:
\* self._body.appearance = self._get_appearance()
apply_appearance(h, v) ==
  LET h1 == get_appearance(h, v.appearance, v.color)
  IN [h1 EXCEPT !.bodies[v.body].appearance = h1.got,
                !.calls = Append(@, Call("set_appearance", v.body))]

\* Fault: the color setter rebuilds the body.
set_color_rebuild(s, new_color) ==
  LET c == tuple_or_none(new_color)
  IN IF s.v.color # c THEN recreate_body([s EXCEPT !.v.color = c]) ELSE s
\* Fault: the color setter without its comparison.
set_color_always(s, new_color) ==
  LET v1 == [s.v EXCEPT !.color = tuple_or_none(new_color)]
  IN [h |-> apply_appearance(s.h, v1), v |-> v1]
\* DirectVoxel.color setter
set_color(s, new_color) ==
  LET c == tuple_or_none(new_color)
      v1 == [s.v EXCEPT !.color = c]
  IN IF s.v.color # c
     THEN [h |-> apply_appearance(s.h, v1), v |-> v1]
     ELSE s

\* DirectVoxel.appearance setter
set_appearance(s, new_appearance_name) ==
  LET v1 == [s.v EXCEPT !.appearance = new_appearance_name]
  IN IF new_appearance_name # s.v.appearance
     THEN [h |-> apply_appearance(s.h, v1), v |-> v1]
     ELSE s

\* DirectVoxel.component setter
set_component(s, new_component) ==
  IF new_component.id # s.v.component.id
  THEN recreate_body([s EXCEPT !.v.component = new_component])
  ELSE s

\* Fault: the center setter moves the body in place.
set_center_in_place(s, new_center) ==
  LET c == tuple(new_center)
  IN IF s.v.center # c
     THEN [s EXCEPT !.v.center = c,
                    !.h.bodies[s.v.body].geometry.center = c.items]
     ELSE s
\* DirectVoxel.center setter
set_center(s, new_center) ==
  LET c == tuple(new_center)
  IN IF s.v.center # c
     THEN recreate_body([s EXCEPT !.v.center = c])
     ELSE s

\* Fault: the side_length setter stores the value and keeps the body.
set_side_length_no_rebuild(s, new_side_length) ==
  IF new_side_length # s.v.side_length
  THEN [s EXCEPT !.v.side_length = new_side_length]
  ELSE s
\* DirectVoxel.side_length setter
set_side_length(s, new_side_length) ==
  IF new_side_length # s.v.side_length
  THEN recreate_body([s EXCEPT !.v.side_length = new_side_length])
  ELSE s

\* DirectCube.shape / DirectSphere.shape
shape(v) == IF v.class = "DirectCube" THEN "cube" ELSE "sphere"

\* Fault: the class's default name serialized for the stored one.
serialize_default_name(v) ==
  [component_name |-> v.component.name, center |-> v.center,
   side_length |-> v.side_length, color |-> v.color,
   appearance |-> v.appearance, shape |-> shape(v), name |-> DefaultName(v.class)]
\* Voxel.serialize extended by DirectVoxel.serialize
serialize(v) ==
  [component_name |-> v.component.name, center |-> v.center,
   side_length |-> v.side_length, color |-> v.color,
   appearance |-> v.appearance, shape |-> shape(v), name |-> v.name]

\* Voxel.__init__ below DirectVoxel.__init__ and the classes' constructors: the
\* attributes stored (center and color as tuples), then the body created.
init_voxel(h, class, a) ==
  LET v0 == [class |-> class, component |-> a.component,
             center |-> tuple(a.center), side_length |-> a.side_length,
             color |-> tuple_or_none(a.color), appearance |-> a.appearance,
             name |-> a.name, body |-> NoBody]
      c == create_body(h, v0)
  IN [h |-> c, v |-> [v0 EXCEPT !.body = c.new]]

\* ------------------------------------------------------------ actions
Live(i) == i \in 1..Len(voxels) /\ voxels[i].body # NoBody

\* What the last operation was: its name, the voxel it was called on, the
\* exception it raised, the appearance _get_appearance returned in it (None
\* when it was not called) and the value a serialize() returned.
Last(op, i, raised, got, ret) ==
  [op |-> op, v |-> i, raised |-> raised, got |-> got, ret |-> ret]

\* The host and voxel i after an operation that returned normally.
Commit(op, i, s) ==
  /\ voxels' = [voxels EXCEPT ![i] = s.v]
  /\ bodies' = s.h.bodies
  /\ nextBody' = s.h.nextBody
  /\ appearances' = s.h.appearances
  /\ firstApp' = s.h.firstApp
  /\ calls' = s.h.calls
  /\ last' = Last(op, i, "none", s.h.got, None)
  /\ nops' = nops + 1
  /\ UNCHANGED designType

Init ==
  /\ designType \in DesignTypes
  /\ voxels = <<>>
  /\ bodies = <<>>
  /\ nextBody = 1
  /\ appearances = <<>>
  /\ calls = <<>>
  /\ last = Last("none", 0, "none", None, None)
  /\ lastSet = <<>>
  /\ deleted = {}
  /\ firstApp = [p \in Pairs |-> None]
  /\ nops = 0

\* The user switches the document between direct and history-based modeling.
SetDesignType(t) ==
  /\ nops < MaxOps
  /\ t # designType
  /\ designType' = t
  /\ calls' = <<>>
  /\ last' = Last("designType", 0, "none", None, None)
  /\ nops' = nops + 1
  /\ UNCHANGED <<voxels, bodies, nextBody, appearances, lastSet, deleted, firstApp>>

\* Fault: the test of the modeling mode left out.
design_is_parametric_never == FALSE
\* DirectVoxel.__init__'s test of the document's modeling mode.
design_is_parametric == designType = ParametricDesignType

\* DirectCube(...) / DirectSphere(...) in history-based mode: RuntimeError.
ConstructRaises(class, a) ==
  /\ nops < MaxOps
  /\ Len(voxels) < MaxVoxels
  /\ design_is_parametric
  /\ calls' = <<>>
  /\ last' = Last("construct", 0, "RuntimeError", None, None)
  /\ nops' = nops + 1
  /\ UNCHANGED <<designType, voxels, bodies, nextBody, appearances, lastSet, deleted,
                 firstApp>>

\* DirectCube(...) / DirectSphere(...) in direct mode.
Construct(class, a) ==
  /\ nops < MaxOps
  /\ Len(voxels) < MaxVoxels
  /\ ~design_is_parametric
  /\ LET s == init_voxel(Host, class, a)
         i == Len(voxels) + 1
     IN /\ voxels' = Append(voxels, s.v)
        /\ bodies' = s.h.bodies
        /\ nextBody' = s.h.nextBody
        /\ appearances' = s.h.appearances
        /\ firstApp' = s.h.firstApp
        /\ calls' = s.h.calls
        /\ last' = Last("construct", i, "none", s.h.got, None)
        /\ lastSet' = Append(lastSet, a)
  /\ nops' = nops + 1
  /\ UNCHANGED <<designType, deleted>>

Delete(i) ==
  /\ nops < MaxOps
  /\ Live(i)
  /\ Commit("delete", i, delete([h |-> Host, v |-> voxels[i]]))
  /\ deleted' = deleted \cup {i}
  /\ UNCHANGED lastSet

RecreateBody(i) ==
  /\ nops < MaxOps
  /\ Live(i)
  /\ Commit("recreate_body", i, recreate_body([h |-> Host, v |-> voxels[i]]))
  /\ UNCHANGED <<lastSet, deleted>>

SetName(i, x) ==
  /\ nops < MaxOps
  /\ Live(i)
  /\ Commit("set_name", i, set_name([h |-> Host, v |-> voxels[i]], x))
  /\ lastSet' = [lastSet EXCEPT ![i].name = x]
  /\ UNCHANGED deleted

SetColor(i, x) ==
  /\ nops < MaxOps
  /\ Live(i)
  /\ Commit("set_color", i, set_color([h |-> Host, v |-> voxels[i]], x))
  /\ lastSet' = [lastSet EXCEPT ![i].color = x]
  /\ UNCHANGED deleted

SetAppearance(i, x) ==
  /\ nops < MaxOps
  /\ Live(i)
  /\ Commit("set_appearance", i, set_appearance([h |-> Host, v |-> voxels[i]], x))
  /\ lastSet' = [lastSet EXCEPT ![i].appearance = x]
  /\ UNCHANGED deleted

SetComponent(i, x) ==
  /\ nops < MaxOps
  /\ Live(i)
  /\ Commit("set_component", i, set_component([h |-> Host, v |-> voxels[i]], x))
  /\ lastSet' = [lastSet EXCEPT ![i].component = x]
  /\ UNCHANGED deleted

SetCenter(i, x) ==
  /\ nops < MaxOps
  /\ Live(i)
  /\ Commit("set_center", i, set_center([h |-> Host, v |-> voxels[i]], x))
  /\ lastSet' = [lastSet EXCEPT ![i].center = x]
  /\ UNCHANGED deleted

SetSideLength(i, x) ==
  /\ nops < MaxOps
  /\ Live(i)
  /\ Commit("set_side_length", i, set_side_length([h |-> Host, v |-> voxels[i]], x))
  /\ lastSet' = [lastSet EXCEPT ![i].side_length = x]
  /\ UNCHANGED deleted

Serialize(i) ==
  /\ nops < MaxOps
  /\ Live(i)
  /\ calls' = <<>>
  /\ last' = Last("serialize", i, "none", None, serialize(voxels[i]))
  /\ nops' = nops + 1
  /\ UNCHANGED <<designType, voxels, bodies, nextBody, appearances, lastSet, deleted,
                 firstApp>>

Next ==
  \/ \E t \in DesignTypes : SetDesignType(t)
  \/ \E class \in Classes : \E a \in CtorArgs(class) : ConstructRaises(class, a)
  \/ \E class \in Classes : \E a \in CtorArgs(class) : Construct(class, a)
  \/ \E i \in 1..MaxVoxels : Delete(i)
  \/ \E i \in 1..MaxVoxels : RecreateBody(i)
  \/ \E i \in 1..MaxVoxels : \E x \in NameInputs : SetName(i, x)
  \/ \E i \in 1..MaxVoxels : \E x \in ColorInputs : SetColor(i, x)
  \/ \E i \in 1..MaxVoxels : \E x \in AppearanceIds : SetAppearance(i, x)
  \/ \E i \in 1..MaxVoxels : \E x \in Components : SetComponent(i, x)
  \/ \E i \in 1..MaxVoxels : \E x \in CenterInputs : SetCenter(i, x)
  \/ \E i \in 1..MaxVoxels : \E x \in SideLengths : SetSideLength(i, x)
  \/ \E i \in 1..MaxVoxels : Serialize(i)

Spec == Init /\ [][Next]_vars

\* ------------------------------------------------------------- claims
Constructed == 1..Len(voxels)
GeometrySetters == {"set_center", "set_side_length", "set_component"}
CosmeticSetters == {"set_color", "set_appearance", "set_name"}
Setters == GeometrySetters \cup CosmeticSetters

\* The calls of the log with the given name.
CallsNamed(log, name) == {k \in 1..Len(log) : log[k].call = name}

\* C1: at every operation boundary each voxel constructed and not deleted
\* references one body, which is live in the host; no two voxels reference
\* the same body; every live body of the host is referenced by a voxel that
\* was not deleted; a voxel delete() was called on references no body, and
\* the body delete() released is no longer live.
C1_BodyOwnership ==
  /\ \A i \in Constructed \ deleted :
       voxels[i].body # NoBody /\ voxels[i].body \in DOMAIN bodies
  /\ \A i, j \in Constructed \ deleted :
       i # j => voxels[i].body # voxels[j].body
  /\ \A b \in DOMAIN bodies :
       \E i \in Constructed \ deleted : voxels[i].body = b
  /\ \A i \in deleted : voxels[i].body = NoBody
  /\ last.op = "delete" =>
       /\ Len(calls) = 1 /\ calls[1].call = "deleteMe"
       /\ calls[1].on \notin DOMAIN bodies

\* A voxel was deleted while another, rebuilt at least once, is live.
C1_Witness ==
  /\ last.op = "delete"
  /\ \E i \in Constructed \ deleted : voxels[i].body > Len(voxels)

\* The argument of the geometry setter that made this step differs from the
\* value voxel i held (center as tuples, component by id).
GeometryArgDiffers(i) ==
  \/ last'.op = "set_center" /\ lastSet'[i].center.items # voxels[i].center.items
  \/ last'.op = "set_side_length" /\ lastSet'[i].side_length # voxels[i].side_length
  \/ last'.op = "set_component" /\ lastSet'[i].component.id # voxels[i].component.id

\* C2: a center, side_length or component setter that changes the value
\* leaves the voxel with a body handle different from the one it held, the
\* previous body deleted from the host before the new one was added, and the
\* same shape tag.
C2_GeometrySetterRebuilds ==
  [][\A i \in Constructed :
       (last'.op \in GeometrySetters /\ last'.v = i /\ GeometryArgDiffers(i)) =>
         /\ voxels'[i].body # voxels[i].body
         /\ voxels'[i].body \in DOMAIN bodies'
         /\ voxels[i].body \notin DOMAIN bodies'
         /\ Len(calls') >= 2
         /\ calls'[1] = Call("deleteMe", voxels[i].body)
         /\ calls'[2] = Call("add", voxels'[i].body)
         /\ shape(voxels'[i]) = shape(voxels[i])]_vars

\* A geometry setter rebuilt the body of a voxel.
C2_Witness ==
  /\ last.op \in GeometrySetters
  /\ Len(calls) >= 2
  /\ calls[1].call = "deleteMe"
  /\ calls[2] = Call("add", voxels[last.v].body)

\* C3: a color, appearance or name setter call, whatever its argument, leaves
\* the voxel's body handle as it was and adds no body to and deletes no body
\* from any container.
C3_CosmeticSetterKeepsBody ==
  [][\A i \in Constructed :
       (last'.op \in CosmeticSetters /\ last'.v = i) =>
         /\ voxels'[i].body = voxels[i].body
         /\ DOMAIN bodies' = DOMAIN bodies
         /\ \A b \in DOMAIN bodies : bodies'[b].component = bodies[b].component
         /\ nextBody' = nextBody
         /\ CallsNamed(calls', "add") = {}
         /\ CallsNamed(calls', "deleteMe") = {}]_vars

\* A color setter changed the color of a voxel and re-applied the appearance.
C3_Witness ==
  /\ last.op = "set_color"
  /\ calls # <<>>
  /\ voxels[last.v].body \in DOMAIN bodies

\* The entries of the document's appearance table derived from appearance id
\* a with color c.
DerivedFor(a, c) ==
  {k \in 1..Len(appearances) : appearances[k].base = a /\ appearances[k].albedo = c}

\* C4: the appearance table never holds more than one derived appearance for
\* an (appearance id, color) pair, and a request for a pair returns the
\* derived appearance the first request for that pair returned.
C4_LookupOrCreateIdempotent ==
  /\ \A p \in Pairs : Cardinality(DerivedFor(p[1], p[2])) <= 1
  /\ last.got.kind = "design" =>
       last.got = firstApp[Pair(voxels[last.v].appearance, voxels[last.v].color)]

\* A request was answered from the table: a derived appearance was returned
\* and none was created.
C4_Witness ==
  /\ last.got.kind = "design"
  /\ CallsNamed(calls, "addByCopy") = {}
  /\ Len(appearances) >= 1

\* serialize() of voxel i gives back side_length, appearance and name as last
\* set, the name of the container last set and the class's shape tag.
SerializesScalarsLastSet(i) ==
  LET s == serialize(voxels[i])
      a == lastSet[i]
  IN /\ s.side_length = a.side_length
     /\ s.appearance = a.appearance
     /\ s.name = a.name
     /\ s.component_name = a.component.name
     /\ s.shape = (IF voxels[i].class = "DirectCube" THEN "cube" ELSE "sphere")

\* Equal once both are converted to tuples (None only equals None).
EqualAsTuples(x, y) ==
  IF x = None \/ y = None THEN x = y
  ELSE x.items = y.items

\* C5 as stated: serialize() returns center, side_length, color, appearance
\* and name equal to the values last set (or the constructor's arguments), the
\* name of the last container set and the class's shape tag.
C5_Original ==
  \A i \in Constructed \ deleted :
    /\ SerializesScalarsLastSet(i)
    /\ serialize(voxels[i]).center = lastSet[i].center
    /\ serialize(voxels[i]).color = lastSet[i].color

\* C5, amended: serialize() returns center and color as tuples of the items
\* last set (a list argument comes back as a tuple, None as None), and
\* side_length, appearance, name, the last container's name and the class's
\* shape tag as last set; a serialize() call returns that mapping and changes
\* no voxel attribute, body or host state.
C5_SerializeLastSetAsTuples ==
  /\ [](\A i \in Constructed \ deleted :
          /\ SerializesScalarsLastSet(i)
          /\ EqualAsTuples(serialize(voxels[i]).center, lastSet[i].center)
          /\ EqualAsTuples(serialize(voxels[i]).color, lastSet[i].color)
          /\ serialize(voxels[i]).center.kind = "tuple"
          /\ serialize(voxels[i]).color.kind \in {"tuple", "None"})
  /\ [](last.op = "serialize" =>
          /\ last.ret = serialize(voxels[last.v])
          /\ calls = <<>>)
  /\ [][last'.op = "serialize" =>
          UNCHANGED <<designType, voxels, bodies, nextBody, appearances>>]_vars

\* serialize() was called on a voxel whose center and color were given as
\* lists, and it returned the center as given item by item.
C5_Witness ==
  /\ last.op = "serialize"
  /\ lastSet[last.v].center.kind = "list"
  /\ lastSet[last.v].color.kind = "list"
  /\ last.ret.center.items = lastSet[last.v].center.items

\* C6: a constructor call while the document is in history-based mode raises
\* and makes no host call: no body is added, no appearance is created and no
\* voxel object comes into existence.
C6_ParametricConstructionRaises ==
  [][(designType = ParametricDesignType /\ last'.op = "construct") =>
       /\ last'.raised = "RuntimeError"
       /\ calls' = <<>>
       /\ UNCHANGED <<voxels, bodies, nextBody, appearances, designType>>]_vars

\* A constructor raised in a document that already holds a voxel's body.
C6_Witness ==
  /\ last.op = "construct"
  /\ last.raised = "RuntimeError"
  /\ designType = ParametricDesignType
  /\ DOMAIN bodies # {}

\* The appearance resolved from (appearance id a, color c): the library's base
\* appearance when no color is set, otherwise the table's derived appearance
\* for the pair.
ResolvesTo(app, a, c) ==
  IF c = None
  THEN app = [kind |-> "library", id |-> a]
  ELSE /\ app.kind = "design"
       /\ app.index \in DerivedFor(a, c.items)

\* C7: the live body of every voxel carries the voxel's stored name and the
\* appearance resolved from its stored appearance id and color.
C7_CosmeticConsistency ==
  \A i \in Constructed \ deleted :
    /\ voxels[i].body \in DOMAIN bodies
    /\ bodies[voxels[i].body].name = voxels[i].name
    /\ ResolvesTo(bodies[voxels[i].body].appearance,
                  voxels[i].appearance, voxels[i].color)

\* A geometry setter rebuilt the body of a colored voxel whose name is not
\* its class's default.
C7_Witness ==
  /\ last.op \in GeometrySetters
  /\ calls # <<>>
  /\ voxels[last.v].color # None
  /\ voxels[last.v].name # DefaultName(voxels[last.v].class)
  /\ bodies[voxels[last.v].body].name = voxels[last.v].name

\* C8: the live body of every voxel is in the voxel's current container,
\* centered at its stored center and sized from its stored side_length (a box
\* of that length, width and height for a cube, a sphere of half that radius
\* for a sphere), and the host holds one live body per live voxel.
C8_GeometryConsistency ==
  /\ \A i \in Constructed \ deleted :
       /\ voxels[i].body \in DOMAIN bodies
       /\ LET b == bodies[voxels[i].body]
          IN /\ b.component = voxels[i].component.id
             /\ b.geometry.center = voxels[i].center.items
             /\ voxels[i].class = "DirectCube" =>
                  /\ b.geometry.kind = "box"
                  /\ b.geometry.length = voxels[i].side_length
                  /\ b.geometry.width = voxels[i].side_length
                  /\ b.geometry.height = voxels[i].side_length
             /\ voxels[i].class = "DirectSphere" =>
                  /\ b.geometry.kind = "sphere"
                  /\ 2 * b.geometry.radius[1] =
                       voxels[i].side_length * b.geometry.radius[2]
  /\ Cardinality(DOMAIN bodies) = Cardinality(Constructed \ deleted)

\* A sphere of odd side length was moved to another container.
C8_Witness ==
  /\ last.op = "set_component"
  /\ calls # <<>>
  /\ voxels[last.v].class = "DirectSphere"
  /\ voxels[last.v].side_length = 1
  /\ bodies[voxels[last.v].body].component = voxels[last.v].component.id

\* "<appearance id>__custom_r<r>g<g>b<b>o<o>"
DerivedName(a, c) ==
  a \o "__custom_r" \o ToString(c[1]) \o "g" \o ToString(c[2])
    \o "b" \o ToString(c[3]) \o "o" \o ToString(c[4])

\* C9: every derived appearance of the table is a copy of the base appearance
\* of some id, named from that id and the four channels of its albedo; a
\* derived appearance returned for a voxel has the voxel's color as albedo and
\* the voxel's appearance id as base; distinct pairs resolve to distinct
\* derived appearances.
C9_DerivedAppearances ==
  /\ \A k \in 1..Len(appearances) :
       \E p \in Pairs :
         /\ appearances[k].base = p[1]
         /\ appearances[k].albedo = p[2]
         /\ appearances[k].name = DerivedName(p[1], p[2])
  /\ last.got.kind = "design" =>
       /\ last.got.index \in 1..Len(appearances)
       /\ appearances[last.got.index].albedo = voxels[last.v].color.items
       /\ appearances[last.got.index].base = voxels[last.v].appearance
  /\ \A p, q \in Pairs :
       (p # q /\ firstApp[p] # None) => firstApp[p] # firstApp[q]

\* Two colors whose channels differ only in where the digits are split each
\* have a derived appearance, and one was just returned from the table.
C9_Witness ==
  /\ DerivedFor("Prism-001", Color1) # {}
  /\ DerivedFor("Prism-001", Color2) # {}
  /\ last.got.kind = "design"

\* The argument of the setter that made this step equals the value voxel i
\* held: center and color as tuples, component by id, the others by value.
ArgSame(i) ==
  \/ last'.op = "set_center" /\ EqualAsTuples(lastSet'[i].center, voxels[i].center)
  \/ last'.op = "set_color" /\ EqualAsTuples(lastSet'[i].color, voxels[i].color)
  \/ last'.op = "set_side_length" /\ lastSet'[i].side_length = voxels[i].side_length
  \/ last'.op = "set_appearance" /\ lastSet'[i].appearance = voxels[i].appearance
  \/ last'.op = "set_name" /\ lastSet'[i].name = voxels[i].name
  \/ last'.op = "set_component" /\ lastSet'[i].component.id = voxels[i].component.id

\* C10: a setter called with a value equal to the current one makes no host
\* call and changes no body, container, appearance-table entry or stored
\* attribute.
C10_SameValueNoOp ==
  [][\A i \in Constructed :
       (last'.op \in Setters /\ last'.v = i /\ ArgSame(i)) =>
         /\ calls' = <<>>
         /\ UNCHANGED <<voxels, bodies, nextBody, appearances>>]_vars

\* A color setter was given, as a list, the color the voxel already held.
C10_Witness ==
  /\ last.op = "set_color"
  /\ calls = <<>>
  /\ lastSet[last.v].color.kind = "list"
  /\ voxels[last.v].color.kind = "tuple"

\* ------------------------------------------------------ host failures
\* The operations again, with the host calls that can fail: bRepBodies.add
\* rejecting the solid, and addByCopy given no appearance to copy because
\* the library holds none of the voxel's appearance id.  Each returns
\* [h |-> host, v |-> voxel, raised |-> exception]: the state the exception
\* leaves behind when raised is not "none".
NoError == "none"
HostError == "RuntimeError (host)"

\* An appearance id the material library does not hold.
UnknownAppearanceId == "Prism-999"
AppearanceIdInputs == AppearanceIds \cup {UnknownAppearanceId}

\* material_library.appearances.itemById(id): None for an id it does not hold.
itemById(id) == IF id \in AppearanceIds THEN LibraryAppearance(id) ELSE None

\* Voxel._get_appearance where the id may be unknown: the base appearance
\* (None) is returned when no color is set, a table entry of the name is
\* returned when there is one, and addByCopy(None, name) raises otherwise.
get_appearance_or_raise(h, appearance, color) ==
  IF itemById(appearance) # None
  THEN [h |-> get_appearance(h, appearance, color), raised |-> NoError]
  ELSE IF color = None
  THEN [h |-> [h EXCEPT !.got = None], raised |-> NoError]
  ELSE LET found == itemByName(h.appearances,
                               colored_appearance_name(appearance, color.items))
       IN IF found # 0
          THEN [h |-> [h EXCEPT !.got = DesignAppearance(found)], raised |-> NoError]
          ELSE [h |-> h, raised |-> HostError]

\* self._component.bRepBodies.add(...): the new body as the host makes it.
add_body(h, v) ==
  [h EXCEPT !.bodies = (h.nextBody :> [component |-> v.component.id,
                                        geometry |-> Geometry(v),
                                        name |-> HostBodyName,
                                        appearance |-> HostBodyAppearance]) @@ @,
            !.nextBody = h.nextBody + 1,
            !.calls = Append(@, Call("add", h.nextBody))]

\* _create_body where the host rejects the solid (reject) or the appearance
\* cannot be resolved: [h, new, raised].
create_body_or_raise(h, v, reject) ==
  IF reject
  THEN [h |-> h, raised |-> HostError]
  ELSE LET b == h.nextBody
           g == get_appearance_or_raise(add_body(h, v), v.appearance, v.color)
       IN IF g.raised # NoError
          THEN [h |-> g.h, raised |-> g.raised]
          ELSE [h |-> [g.h EXCEPT !.bodies[b].appearance = g.h.got,
                                  !.bodies[b].name = v.name,
                                  !.calls = @ \o <<Call("set_appearance", b),
                                                   Call("set_name", b)>>,
                                  !.new = b],
                raised |-> NoError]

\* Voxel.recreate_body: delete(), then _body is assigned only if
\* _create_body returns.
recreate_body_or_raise(s, reject) ==
  LET d == delete(s)
      c == create_body_or_raise(d.h, d.v, reject)
  IN IF c.raised # NoError
     THEN [h |-> c.h, v |-> d.v, raised |-> c.raised]
     ELSE [h |-> c.h, v |-> [d.v EXCEPT !.body = c.h.new], raised |-> NoError]

\* self._body.appearance = self._get_appearance(): the right-hand side first.
apply_appearance_or_raise(h, v) ==
  LET g == get_appearance_or_raise(h, v.appearance, v.color)
  IN IF g.raised # NoError
     THEN [h |-> g.h, v |-> v, raised |-> g.raised]
     ELSE [h |-> [g.h EXCEPT !.bodies[v.body].appearance = g.h.got,
                             !.calls = Append(@, Call("set_appearance", v.body))],
           v |-> v, raised |-> NoError]

Returned(s) == [h |-> s.h, v |-> s.v, raised |-> NoError]

\* DirectVoxel.color setter
set_color_or_raise(s, new_color) ==
  LET c == tuple_or_none(new_color)
  IN IF s.v.color # c
     THEN apply_appearance_or_raise(s.h, [s.v EXCEPT !.color = c])
     ELSE Returned(s)

\* DirectVoxel.appearance setter
set_appearance_or_raise(s, new_appearance_name) ==
  IF new_appearance_name # s.v.appearance
  THEN apply_appearance_or_raise(s.h, [s.v EXCEPT !.appearance = new_appearance_name])
  ELSE Returned(s)

\* DirectVoxel.component setter
set_component_or_raise(s, new_component, reject) ==
  IF new_component.id # s.v.component.id
  THEN recreate_body_or_raise([s EXCEPT !.v.component = new_component], reject)
  ELSE Returned(s)

\* DirectVoxel.center setter
set_center_or_raise(s, new_center, reject) ==
  LET c == tuple(new_center)
  IN IF s.v.center # c
     THEN recreate_body_or_raise([s EXCEPT !.v.center = c], reject)
     ELSE Returned(s)

\* DirectVoxel.side_length setter
set_side_length_or_raise(s, new_side_length, reject) ==
  IF new_side_length # s.v.side_length
  THEN recreate_body_or_raise([s EXCEPT !.v.side_length = new_side_length], reject)
  ELSE Returned(s)

\* Voxel.__init__: the attributes stored, then _body assigned only if
\* _create_body returns.
init_voxel_or_raise(h, class, a, reject) ==
  LET v0 == [class |-> class, component |-> a.component,
             center |-> tuple(a.center), side_length |-> a.side_length,
             color |-> tuple_or_none(a.color), appearance |-> a.appearance,
             name |-> a.name, body |-> NoBody]
      c == create_body_or_raise(h, v0, reject)
  IN IF c.raised # NoError
     THEN [h |-> c.h, v |-> v0, raised |-> c.raised]
     ELSE [h |-> c.h, v |-> [v0 EXCEPT !.body = c.h.new], raised |-> NoError]

\* The constructor calls again, and one naming an appearance id the library
\* does not hold.
CtorArgsOrUnknown(class) ==
  CtorArgs(class) \cup
  { [component |-> CHOOSE c \in Components : c.id = 1,
     center |-> PyTuple(<<0, 0, 0>>), side_length |-> 1,
     color |-> PyTuple(Color1), appearance |-> UnknownAppearanceId,
     name |-> DefaultName(class)] }

\* The host and voxel i after an operation that returned or raised.
CommitOrRaise(op, i, s) ==
  /\ voxels' = [voxels EXCEPT ![i] = s.v]
  /\ bodies' = s.h.bodies
  /\ nextBody' = s.h.nextBody
  /\ appearances' = s.h.appearances
  /\ firstApp' = s.h.firstApp
  /\ calls' = s.h.calls
  /\ last' = Last(op, i, s.raised, s.h.got, None)
  /\ nops' = nops + 1
  /\ UNCHANGED <<designType, deleted>>

\* DirectCube(...) / DirectSphere(...) in direct mode: a constructor that
\* raises returns no object.
ConstructOrRaise(class, a, reject) ==
  /\ nops < MaxOps
  /\ Len(voxels) < MaxVoxels
  /\ ~design_is_parametric
  /\ LET s == init_voxel_or_raise(Host, class, a, reject)
         i == Len(voxels) + 1
     IN /\ bodies' = s.h.bodies
        /\ nextBody' = s.h.nextBody
        /\ appearances' = s.h.appearances
        /\ firstApp' = s.h.firstApp
        /\ calls' = s.h.calls
        /\ IF s.raised = NoError
           THEN /\ voxels' = Append(voxels, s.v)
                /\ lastSet' = Append(lastSet, a)
                /\ last' = Last("construct", i, NoError, s.h.got, None)
           ELSE /\ UNCHANGED <<voxels, lastSet>>
                /\ last' = Last("construct", 0, s.raised, None, None)
  /\ nops' = nops + 1
  /\ UNCHANGED <<designType, deleted>>

SetColorOrRaise(i, x) ==
  /\ nops < MaxOps
  /\ Live(i)
  /\ CommitOrRaise("set_color", i,
                   set_color_or_raise([h |-> Host, v |-> voxels[i]], x))
  /\ lastSet' = [lastSet EXCEPT ![i].color = x]

SetAppearanceOrRaise(i, x) ==
  /\ nops < MaxOps
  /\ Live(i)
  /\ CommitOrRaise("set_appearance", i,
                   set_appearance_or_raise([h |-> Host, v |-> voxels[i]], x))
  /\ lastSet' = [lastSet EXCEPT ![i].appearance = x]

SetComponentOrRaise(i, x, reject) ==
  /\ nops < MaxOps
  /\ Live(i)
  /\ CommitOrRaise("set_component", i,
                   set_component_or_raise([h |-> Host, v |-> voxels[i]], x, reject))
  /\ lastSet' = [lastSet EXCEPT ![i].component = x]

SetCenterOrRaise(i, x, reject) ==
  /\ nops < MaxOps
  /\ Live(i)
  /\ CommitOrRaise("set_center", i,
                   set_center_or_raise([h |-> Host, v |-> voxels[i]], x, reject))
  /\ lastSet' = [lastSet EXCEPT ![i].center = x]

SetSideLengthOrRaise(i, x, reject) ==
  /\ nops < MaxOps
  /\ Live(i)
  /\ CommitOrRaise("set_side_length", i,
                   set_side_length_or_raise([h |-> Host, v |-> voxels[i]], x, reject))
  /\ lastSet' = [lastSet EXCEPT ![i].side_length = x]

NextFail ==
  \/ \E t \in DesignTypes : SetDesignType(t)
  \/ \E class \in Classes : \E a \in CtorArgs(class) : ConstructRaises(class, a)
  \/ \E class \in Classes : \E a \in CtorArgsOrUnknown(class) :
       \E reject \in BOOLEAN : ConstructOrRaise(class, a, reject)
  \/ \E i \in 1..MaxVoxels : Delete(i)
  \/ \E i \in 1..MaxVoxels : \E x \in ColorInputs : SetColorOrRaise(i, x)
  \/ \E i \in 1..MaxVoxels : \E x \in AppearanceIdInputs : SetAppearanceOrRaise(i, x)
  \/ \E i \in 1..MaxVoxels : \E x \in Components :
       \E reject \in BOOLEAN : SetComponentOrRaise(i, x, reject)
  \/ \E i \in 1..MaxVoxels : \E x \in CenterInputs :
       \E reject \in BOOLEAN : SetCenterOrRaise(i, x, reject)
  \/ \E i \in 1..MaxVoxels : \E x \in SideLengths :
       \E reject \in BOOLEAN : SetSideLengthOrRaise(i, x, reject)

SpecFail == Init /\ [][NextFail]_vars

\* The bodies the voxels reference after the step.
Referenced == {voxels'[j].body : j \in {k \in 1..Len(voxels') : voxels'[k].body # NoBody}}

\* C11: a constructor or setter in which a host call fails has no partial
\* effect: after a failed setter the voxel's stored attributes and body
\* reference are as before the call and that body is still live; after a
\* failed construction the container holds no body of the attempt; in both
\* cases every live body of the host is referenced by a voxel.
C11_FailureHasNoPartialEffect ==
  [][last'.raised = HostError =>
       /\ last'.op \in Setters =>
            /\ voxels'[last'.v] = voxels[last'.v]
            /\ voxels'[last'.v].body \in DOMAIN bodies'
       /\ last'.op = "construct" =>
            /\ DOMAIN bodies' = DOMAIN bodies
            /\ voxels' = voxels
       /\ DOMAIN bodies' \subseteq Referenced]_vars

=============================================================================
